---------------------------- MODULE Spec2Model ----------------------------
(***************************************************************************)
(* Model of the fixation-distance batch of Tima21-Y/Thesis                 *)
(* (src/code/outliers.py; src/code/building_distance.py is the same        *)
(* pipeline without the IQR step): KMZ extraction, KML placemark parsing,  *)
(* the loop over the 5 x 3 session pairs with nearest-timestamp alignment, *)
(* and the IQR outlier selection.                                          *)
(*                                                                         *)
(* Conventions.  A nullable cell (NaN / NaT / None) is <<>> and a present  *)
(* value v is <<v>>.  Text is a sequence of one-character strings.         *)
(* Timestamps are integers (ticks), coordinates are integers in units of   *)
(* 1e-4 degree, the quartiles are kept exactly as numerators over 4.       *)
(***************************************************************************)
EXTENDS Integers, Sequences, FiniteSets, TLC

VARIABLES
    archive,       \* z.namelist(): the entry names of the KMZ archive
    kml,           \* the Placemark elements of the KML document, in order
    files,         \* the file system: pair -> [gps, fix], <<>> when absent
    sort_order,    \* pair -> the order DataFrame.sort_values leaves the rows in
    pc,            \* position of the script
    error,         \* the exception that ended the run, <<>> when none
    kml_file,      \* name of the extracted entry, <<>> for None
    pm_i,          \* index of the next placemark
    house_coords,  \* house_id -> [lat, lon, name]
    expl, et,      \* loop variables of the pair loop
    gps_df,        \* trajectory of the current pair (sorted)
    fix_df,        \* surviving fixations of the current pair
    row_i,         \* index of the next fixation row
    all_results,   \* accumulated result records
    log,           \* lines printed by the pair loop
    Q1, Q3, IQR,   \* quartiles of distance_m, as numerators over 4
    outlier_df,    \* <<>> until selected, then <<rows>>
    \* src/code/animated.py, the track renderer
    listing,       \* os.listdir(folder_path): [name, rows] per entry
    csv_files,     \* the entries whose name ends in '.csv'
    file_i,        \* index of the next file of csv_files
    color_cycle,   \* position of the itertools.cycle iterator
    first_point,   \* <<>> for None, else <<[lat, lon]>>
    legend_items,  \* (csv_file, color) pairs
    m_location,    \* m.location, the map centre
    m_layers,      \* the TimestampedGeoJson layers added to m
    legend_html,   \* <<>> until built, then <<entries>>
    render_pc      \* position of the renderer

inputs == <<archive, kml, files, sort_order>>
vars == <<archive, kml, files, sort_order, pc, error, kml_file, pm_i,
          house_coords, expl, et, gps_df, fix_df, row_i, all_results, log,
          Q1, Q3, IQR, outlier_df, listing, csv_files, file_i, color_cycle,
          first_point, legend_items, m_location, m_layers, legend_html,
          render_pc>>
batch == <<archive, kml, files, sort_order, pc, error, kml_file, pm_i,
           house_coords, expl, et, gps_df, fix_df, row_i, all_results, log,
           Q1, Q3, IQR, outlier_df>>
tracks == <<listing, csv_files, file_i, color_cycle, first_point,
            legend_items, m_location, m_layers, legend_html, render_pc>>

---------------------------------------------------------------------------
(* Bounds of the model and constants of the program *)

NumExpl == 5
NumET == 3
MaxPresent == 2
MaxSamples == 3
MaxPlacemarks == 2
MaxResults == 4

None == <<>>
NaT == <<>>
NaN == <<>>

Pairs == (1..NumExpl) \X (1..NumET)

---------------------------------------------------------------------------
(* Text: str.strip, str.endswith, re.match(r'Punkt\s*(\d+)', ., re.I), int *)

IsSpace(c) == c \in {" ", "\t", "\n"}

DigitValue == [c \in {"0", "1", "2", "3", "4", "5", "6", "7", "8", "9"} |->
                 CASE c = "0" -> 0 [] c = "1" -> 1 [] c = "2" -> 2
                   [] c = "3" -> 3 [] c = "4" -> 4 [] c = "5" -> 5
                   [] c = "6" -> 6 [] c = "7" -> 7 [] c = "8" -> 8
                   [] c = "9" -> 9]

IsDigit(c) == c \in DOMAIN DigitValue

Lower(c) == CASE c = "P" -> "p" [] c = "U" -> "u" [] c = "N" -> "n"
              [] c = "K" -> "k" [] c = "T" -> "t" [] c = "M" -> "m"
              [] c = "L" -> "l" [] c = "H" -> "h" [] c = "A" -> "a"
              [] c = "S" -> "s" [] c = "D" -> "d" [] OTHER -> c

RECURSIVE LStrip(_)
LStrip(s) == IF s # <<>> /\ IsSpace(Head(s)) THEN LStrip(Tail(s)) ELSE s

RECURSIVE RStrip(_)
RStrip(s) == IF s # <<>> /\ IsSpace(s[Len(s)])
             THEN RStrip(SubSeq(s, 1, Len(s) - 1)) ELSE s

Strip(s) == RStrip(LStrip(s))

EndsWithCI(s, suffix) ==
    /\ Len(s) >= Len(suffix)
    /\ \A i \in 1..Len(suffix) :
          Lower(s[Len(s) - Len(suffix) + i]) = Lower(suffix[i])

EndsWith(s, suffix) ==
    /\ Len(s) >= Len(suffix)
    /\ \A i \in 1..Len(suffix) : s[Len(s) - Len(suffix) + i] = suffix[i]

DotKml == <<".", "k", "m", "l">>

IsKmlNameCI(name) == EndsWithCI(name, DotKml)

\* name.endswith('.kml')
IsKmlName(name) == EndsWith(name, DotKml)

Punkt == <<"p", "u", "n", "k", "t">>

RECURSIVE TakeDigits(_)
TakeDigits(s) == IF s # <<>> /\ IsDigit(Head(s))
                 THEN <<Head(s)>> \o TakeDigits(Tail(s)) ELSE <<>>

\* re.match: anchored at the start only, IGNORECASE; <<>> when there is no
\* match, else <<group(1)>>.
ReMatch(name_text) ==
    LET rest == IF Len(name_text) >= Len(Punkt)
                THEN LStrip(SubSeq(name_text, Len(Punkt) + 1, Len(name_text)))
                ELSE <<>>
    IN IF /\ Len(name_text) >= Len(Punkt)
          /\ \A i \in 1..Len(Punkt) : Lower(name_text[i]) = Punkt[i]
          /\ TakeDigits(rest) # <<>>
       THEN <<TakeDigits(rest)>> ELSE <<>>

RECURSIVE ToInt(_)
ToInt(digits) == IF digits = <<>> THEN 0
                 ELSE 10 * ToInt(SubSeq(digits, 1, Len(digits) - 1))
                      + DigitValue[digits[Len(digits)]]

---------------------------------------------------------------------------
(* KML placemarks.  name: [tag |-> "none"] (no <name>), [tag |-> "empty"]  *)
(* (<name/>, text is None) or [tag |-> "text", text |-> chars].  coords:   *)
(* the same tags for Point/coordinates, its text already split at the      *)
(* commas into fields: <<v>> for a field float() accepts, <<>> for one it  *)
(* rejects.                                                                *)

NoElem == [tag |-> "none"]
NoText == [tag |-> "empty"]
Text(t) == [tag |-> "text", text |-> t]

\* float() over the fields, then "lon, lat, *_ =": every field is converted,
\* and at least two are needed.
CoordsOk(fields) == Len(fields) >= 2 /\ \A i \in 1..Len(fields) : fields[i] # <<>>

Put(f, k, v) == [x \in DOMAIN f \cup {k} |-> IF x = k THEN v ELSE f[x]]

\* house_coords[house_id] = (lat, lon, name_text), from 'lon,lat[,alt]'.
Entry(name_text, fields) ==
    [lat |-> fields[2][1], lon |-> fields[1][1], name |-> name_text]

\* One iteration of the placemark loop: [hc, err].
ParseOne(hc, pm) ==
    IF pm.name.tag = "none" \/ pm.coords.tag = "none"
    THEN [hc |-> hc, err |-> None]
    ELSE IF pm.name.tag = "empty"
    THEN [hc |-> hc, err |-> <<"AttributeError">>]
    ELSE LET name_text == Strip(pm.name.text)
             match == ReMatch(name_text)
         IN IF match = <<>> THEN [hc |-> hc, err |-> None]
            ELSE IF pm.coords.tag = "empty"
            THEN [hc |-> hc, err |-> <<"AttributeError">>]
            ELSE IF ~CoordsOk(pm.coords.text)
            THEN [hc |-> hc, err |-> <<"ValueError">>]
            ELSE [hc |-> Put(hc, ToInt(match[1]),
                             Entry(name_text, pm.coords.text)),
                  err |-> None]


---------------------------------------------------------------------------
(* Tables.  A trajectory file row is [synced_time, latitude, longitude],   *)
(* each cell nullable; a fixation file row is [start_timestamp_ns          *)
(* (nullable), house_nr, frame_nr].  files[p].gps and files[p].fix are     *)
(* <<>> when the file does not exist and <<rows>> when it does.            *)

Exists(f) == f # <<>>

Abs(x) == IF x < 0 THEN -x ELSE x

\* read_csv + dropna(subset=[latitude, longitude, synced_time]): the rows
\* that survive, each with its RangeIndex label.
ValidLabels(rows) ==
    {i \in 1..Len(rows) : /\ rows[i].synced_time # NaT
                          /\ rows[i].latitude # NaN
                          /\ rows[i].longitude # NaN}

GpsRow(rows, i) == [index |-> i - 1,
                    synced_time |-> rows[i].synced_time[1],
                    latitude |-> rows[i].latitude[1],
                    longitude |-> rows[i].longitude[1]]

\* The orders sort_values(by='synced_time') (kind='quicksort', not stable)
\* can leave the surviving rows in: every permutation of their labels that
\* is non-decreasing in synced_time.
SortOutcomes(rows) ==
    LET L == ValidLabels(rows)
        n == Cardinality(L)
    IN {s \in [1..n -> L] :
          /\ \A i, j \in 1..n : i # j => s[i] # s[j]
          /\ \A i \in 1..n : \A j \in 1..n :
                i < j => rows[s[i]].synced_time[1] <= rows[s[j]].synced_time[1]}

\* The one order a stable sort leaves them in.
StableOutcome(rows) ==
    CHOOSE s \in SortOutcomes(rows) :
        \A i, j \in 1..Len(s) :
            (i < j /\ rows[s[i]].synced_time = rows[s[j]].synced_time)
                => s[i] < s[j]

LoadGps(rows, order) == [i \in 1..Len(order) |-> GpsRow(rows, order[i])]

KeepAnyHouse(row, hc) == row.start_timestamp_ns # NaT

KeepHouseInRegistry(row, hc) ==
    /\ row.start_timestamp_ns # NaT
    /\ row.house_nr \in DOMAIN hc

\* dropna(subset=[start_timestamp_ns]) and the house_nr filter.
KeepFixation(row, hc) ==
    /\ row.start_timestamp_ns # NaT
    /\ row.house_nr # 0
    /\ row.house_nr \in DOMAIN hc

LoadFix(rows, hc) ==
    LET kept == SelectSeq(rows, LAMBDA r : KeepFixation(r, hc))
    IN [i \in 1..Len(kept) |->
          [start_timestamp_ns |-> kept[i].start_timestamp_ns[1],
           house_nr |-> kept[i].house_nr,
           frame_nr |-> kept[i].frame_nr]]

\* (gps_df['synced_time'] - ts).abs()
AbsDiff(df, ts) == [i \in 1..Len(df) |-> Abs(df[i].synced_time - ts)]

IdxMinLast(d) ==
    CHOOSE i \in 1..Len(d) :
        /\ \A j \in 1..Len(d) : d[i] <= d[j]
        /\ \A j \in 1..Len(d) : (j > i) => d[j] > d[i]

IdxMax(d) ==
    CHOOSE i \in 1..Len(d) :
        /\ \A j \in 1..Len(d) : d[i] >= d[j]
        /\ \A j \in 1..(i - 1) : d[j] < d[i]

\* Series.idxmin on a non-empty series: the first position of the minimum.
IdxMin(d) ==
    CHOOSE i \in 1..Len(d) :
        /\ \A j \in 1..Len(d) : d[i] <= d[j]
        /\ \A j \in 1..(i - 1) : d[j] > d[i]

find_closest_position(df, ts) ==
    LET i == IdxMin(AbsDiff(df, ts))
    IN <<df[i].latitude, df[i].longitude>>

\* geopy's geodesic(a, b).meters is an external library: the model keeps a
\* metric on the coordinate grid in its place (zero exactly on equal points).
geodesic(a, b) == Abs(a[1] - b[1]) + Abs(a[2] - b[2])

Result(e, t, row, hc, df) ==
    LET target == hc[row.house_nr]
        person == find_closest_position(df, row.start_timestamp_ns)
    IN [expl |-> e, et |-> t,
        house_nr |-> row.house_nr,
        building_name |-> target.name,
        fixation_time |-> row.start_timestamp_ns,
        person_position |-> person,
        target_position |-> <<target.lat, target.lon>>,
        distance_m |-> geodesic(person, <<target.lat, target.lon>>),
        frame_nr |-> row.frame_nr]

---------------------------------------------------------------------------
(* Quartiles.  Series.quantile(q) interpolates linearly at position        *)
(* (n - 1) * q of the sorted values; for q = k/4 the result is returned    *)
(* as its numerator over 4.                                                *)

Distances(rs) == [i \in 1..Len(rs) |-> rs[i].distance_m]

Sorted(d) == SortSeq(d, LAMBDA a, b : a < b)

QuantileLower(d, k) ==
    LET a == Sorted(d)
        h == (Len(a) - 1) * k
    IN 4 * a[(h \div 4) + 1]

Quantile(d, k) ==
    LET a == Sorted(d)
        h == (Len(a) - 1) * k
        lo == (h \div 4) + 1
        r == h % 4
    IN IF r = 0 THEN 4 * a[lo]
       ELSE 4 * a[lo] + r * (a[lo + 1] - a[lo])

UpperOnly(d, q1, q3, iqr) == 8 * d > 2 * q3 + 3 * iqr

\* distance < Q1 - 1.5 * IQR or distance > Q3 + 1.5 * IQR, with the
\* quartiles over 4: both sides multiplied by 8.
IsOutlier(d, q1, q3, iqr) ==
    \/ 8 * d < 2 * q1 - 3 * iqr
    \/ 8 * d > 2 * q3 + 3 * iqr

---------------------------------------------------------------------------
(* The script, one action per step *)

Abort(name) == /\ pc' = "aborted"
               /\ error' = <<name>>

\* with zipfile.ZipFile(...): the first entry whose name ends in '.kml'.
FirstKml(names) ==
    IF \E i \in 1..Len(names) : IsKmlName(names[i])
    THEN <<names[CHOOSE i \in 1..Len(names) :
                    /\ IsKmlName(names[i])
                    /\ \A j \in 1..(i - 1) : ~IsKmlName(names[j])]>>
    ELSE None

ExtractKml ==
    /\ pc = "extract"
    /\ kml_file' = FirstKml(archive)
    /\ pc' = IF kml_file' = None THEN "pairs" ELSE "parse"
    /\ UNCHANGED tracks
    /\ UNCHANGED <<inputs, error, pm_i, house_coords, expl, et, gps_df,
                   fix_df, row_i, all_results, log, Q1, Q3, IQR, outlier_df>>

\* for placemark in root.findall('.//kml:Placemark'): one iteration.
ParsePlacemark ==
    /\ pc = "parse"
    /\ pm_i <= Len(kml)
    /\ LET r == ParseOne(house_coords, kml[pm_i])
       IN /\ house_coords' = r.hc
          /\ error' = r.err
          /\ pc' = IF r.err = None THEN "parse" ELSE "aborted"
    /\ pm_i' = pm_i + 1
    /\ UNCHANGED tracks
    /\ UNCHANGED <<inputs, kml_file, expl, et, gps_df, fix_df, row_i,
                   all_results, log, Q1, Q3, IQR, outlier_df>>

ParseDone ==
    /\ pc = "parse"
    /\ pm_i > Len(kml)
    /\ pc' = "pairs"
    /\ UNCHANGED tracks
    /\ UNCHANGED <<inputs, error, kml_file, pm_i, house_coords, expl, et,
                   gps_df, fix_df, row_i, all_results, log, Q1, Q3, IQR,
                   outlier_df>>

BothExist(p) == Exists(files[p].gps) /\ Exists(files[p].fix)

Advance ==
    IF et < NumET THEN /\ et' = et + 1
                       /\ expl' = expl
    ELSE /\ et' = 1
         /\ expl' = expl + 1

\* if not (os.path.exists(gps_path) and os.path.exists(fix_path)): continue
SkipPair ==
    /\ pc = "pairs"
    /\ expl <= NumExpl
    /\ ~BothExist(<<expl, et>>)
    /\ log' = Append(log, <<"Skipping", expl, et>>)
    /\ Advance
    /\ UNCHANGED tracks
    /\ UNCHANGED <<inputs, pc, error, kml_file, pm_i, house_coords, gps_df,
                   fix_df, row_i, all_results, Q1, Q3, IQR, outlier_df>>

\* Load GPS, load fixations, filter.
LoadPair ==
    /\ pc = "pairs"
    /\ expl <= NumExpl
    /\ BothExist(<<expl, et>>)
    /\ log' = Append(log, <<"Processing", expl, et>>)
    /\ gps_df' = LoadGps(files[<<expl, et>>].gps[1], sort_order[<<expl, et>>])
    /\ fix_df' = LoadFix(files[<<expl, et>>].fix[1], house_coords)
    /\ row_i' = 1
    /\ pc' = "rows"
    /\ UNCHANGED tracks
    /\ UNCHANGED <<inputs, error, kml_file, pm_i, house_coords, expl, et,
                   all_results, Q1, Q3, IQR, outlier_df>>

\* for _, row in fix_df.iterrows(): one iteration.  idxmin of an empty
\* series raises ValueError.
DistanceRow ==
    /\ pc = "rows"
    /\ row_i <= Len(fix_df)
    /\ row_i' = row_i + 1
    /\ IF fix_df[row_i].house_nr \notin DOMAIN house_coords
       THEN UNCHANGED <<pc, error, all_results>>
       ELSE IF gps_df = <<>>
       THEN /\ Abort("ValueError")
            /\ UNCHANGED all_results
       ELSE /\ all_results' = Append(all_results,
                 Result(expl, et, fix_df[row_i], house_coords, gps_df))
            /\ UNCHANGED <<pc, error>>
    /\ UNCHANGED tracks
    /\ UNCHANGED <<inputs, kml_file, pm_i, house_coords, expl, et, gps_df,
                   fix_df, log, Q1, Q3, IQR, outlier_df>>

EndPair ==
    /\ pc = "rows"
    /\ row_i > Len(fix_df)
    /\ pc' = "pairs"
    /\ Advance
    /\ UNCHANGED tracks
    /\ UNCHANGED <<inputs, error, kml_file, pm_i, house_coords, gps_df,
                   fix_df, row_i, all_results, log, Q1, Q3, IQR, outlier_df>>

\* distance_df = pd.DataFrame(all_results); Q1, Q3, IQR.  A frame built from
\* an empty list has no 'distance_m' column: KeyError.
ComputeIQR ==
    /\ pc = "pairs"
    /\ expl > NumExpl
    /\ IF all_results = <<>>
       THEN /\ Abort("KeyError")
            /\ UNCHANGED <<Q1, Q3, IQR>>
       ELSE /\ Q1' = Quantile(Distances(all_results), 1)
            /\ Q3' = Quantile(Distances(all_results), 3)
            /\ IQR' = Q3' - Q1'
            /\ pc' = "select"
            /\ UNCHANGED error
    /\ UNCHANGED tracks
    /\ UNCHANGED <<inputs, kml_file, pm_i, house_coords, expl, et, gps_df,
                   fix_df, row_i, all_results, log, outlier_df>>

SelectOutliers ==
    /\ pc = "select"
    /\ outlier_df' = <<SelectSeq(all_results,
                          LAMBDA r : IsOutlier(r.distance_m, Q1, Q3, IQR))>>
    /\ pc' = "done"
    /\ UNCHANGED tracks
    /\ UNCHANGED <<inputs, error, kml_file, pm_i, house_coords, expl, et,
                   gps_df, fix_df, row_i, all_results, log, Q1, Q3, IQR>>

Next ==
    \/ ExtractKml
    \/ ParsePlacemark
    \/ ParseDone
    \/ SkipPair
    \/ LoadPair
    \/ DistanceRow
    \/ EndPair
    \/ ComputeIQR
    \/ SelectOutliers

\* The batch scripts have no renderer state.
NoRenderer ==
    /\ listing = <<>>
    /\ csv_files = <<>>
    /\ file_i = 1
    /\ color_cycle = 1
    /\ first_point = None
    /\ legend_items = <<>>
    /\ m_location = <<>>
    /\ m_layers = <<>>
    /\ legend_html = None
    /\ render_pc = "none"

\* The state of the script before its first statement, on given inputs.
Start ==
    /\ pc = "extract"
    /\ error = None
    /\ kml_file = None
    /\ pm_i = 1
    /\ house_coords = <<>>
    /\ expl = 1
    /\ et = 1
    /\ gps_df = <<>>
    /\ fix_df = <<>>
    /\ row_i = 1
    /\ all_results = <<>>
    /\ log = <<>>
    /\ Q1 = 0
    /\ Q3 = 0
    /\ IQR = 0
    /\ outlier_df = None
    /\ NoRenderer

---------------------------------------------------------------------------
(* Inputs the specifications draw from *)

PosA == <<520000, 130001>>
PosB == <<520000, 130000>>
PosC == <<520010, 130000>>

Sample(t, pos) == [synced_time |-> <<t>>, latitude |-> <<pos[1]>>,
                   longitude |-> <<pos[2]>>]
NoTime(pos) == [synced_time |-> NaT, latitude |-> <<pos[1]>>,
                longitude |-> <<pos[2]>>]
NoLat(t, pos) == [synced_time |-> <<t>>, latitude |-> NaN,
                  longitude |-> <<pos[2]>>]
Fix(t, h, f) == [start_timestamp_ns |-> t, house_nr |-> h, frame_nr |-> f]

\* Trajectory files: the spec's scenario, one with two samples at the same
\* time, and one with no valid row.
GpsScenario == <<Sample(0, PosA), Sample(10, PosB)>>
GpsTie == <<NoTime(PosB), Sample(5, PosC), Sample(5, PosA), Sample(1, PosB)>>
GpsEmpty == <<NoTime(PosA), NoLat(3, PosB)>>

\* Fixation files: FixMixed has an unparsable time, house 0, a house that no
\* registry of the model holds, and valid rows; FixNone has no valid row.
FixMixed == <<Fix(NaT, 1, 1), Fix(<<9>>, 1, 2), Fix(<<5>>, 0, 3),
              Fix(<<5>>, 7, 4), Fix(<<4>>, 2, 5)>>
FixNone == <<Fix(NaT, 1, 1), Fix(<<5>>, 0, 2), Fix(<<6>>, 7, 3)>>

PunktEins == <<"P", "u", "n", "k", "t", " ", "1">>
PunktZwei == <<"P", "U", "N", "K", "T", " ", "0", "2">>
PunktNull == <<"P", "u", "n", "k", "t", " ", "0">>
PunktKlein == <<" ", "p", "u", "n", "k", "t", "1", " ">>
PunktEinsA == <<"P", "u", "n", "k", "t", " ", "1", "a">>
HausDrei == <<"H", "a", "u", "s", " ", "3">>

Coords(pos) == Text(<<<<pos[2]>>, <<pos[1]>>>>)
CoordsAlt(pos) == Text(<<<<pos[2]>>, <<pos[1]>>, <<30>>>>)
Placemark(n, c) == [name |-> n, coords |-> c]

\* A document with houses 0, 1 and 2.
KmlHouses == <<Placemark(Text(PunktNull), Coords(PosA)),
               Placemark(Text(PunktEins), Coords(PosB)),
               Placemark(Text(HausDrei), Coords(PosA)),
               Placemark(Text(PunktZwei), CoordsAlt(PosC))>>

PlacemarkKinds ==
    {Placemark(Text(PunktEins), Coords(PosB)),
     Placemark(Text(PunktKlein), CoordsAlt(PosC)),
     Placemark(Text(PunktZwei), Coords(PosC)),
     Placemark(Text(PunktEinsA), Coords(PosA)),
     Placemark(Text(HausDrei), Coords(PosA)),
     Placemark(NoElem, Coords(PosA)),
     Placemark(NoText, Coords(PosA)),
     Placemark(NoText, NoElem),
     Placemark(Text(PunktZwei), NoElem),
     Placemark(Text(PunktZwei), NoText),
     Placemark(Text(PunktZwei), Text(<<<<130000>>>>)),
     Placemark(Text(PunktZwei), Text(<<<<130000>>, <<520000>>, <<>>>>))}

DocKml == <<"d", "o", "c", ".", "k", "m", "l">>
DocKmlUpper == <<"D", "O", "C", ".", "K", "M", "L">>
IconPng == <<"i", ".", "p", "n", "g">>
Kml == <<"k", "m", "l">>

ArchiveKinds == {<<>>, <<IconPng>>, <<DocKmlUpper, Kml>>,
                 <<IconPng, DocKml>>, <<DocKml, IconPng>>}

SeqsUpTo(S, n) == UNION {[1..k -> S] : k \in 0..n}

OrdersOf(g) == IF Exists(g) THEN SortOutcomes(g[1]) ELSE {<<>>}

KindsOf(gpsSet, fixSet) ==
    UNION {{[gps |-> g, fix |-> f, order |-> o] : o \in OrdersOf(g), f \in fixSet}
           : g \in gpsSet}

\* files and sort_order with the pairs of S drawn from kinds, the other
\* pairs having no file.
FilesOn(S, kinds) ==
    \E k \in [S -> kinds] :
        /\ files = [p \in Pairs |->
                      IF p \in S THEN [gps |-> k[p].gps, fix |-> k[p].fix]
                      ELSE [gps |-> <<>>, fix |-> <<>>]]
        /\ sort_order = [p \in Pairs |-> IF p \in S THEN k[p].order ELSE <<>>]

BatchKinds ==
    KindsOf({<<GpsScenario>>}, {<<>>})
    \cup KindsOf({<<>>}, {<<FixMixed>>})
    \cup KindsOf({<<GpsScenario>>, <<GpsTie>>, <<GpsEmpty>>}, {<<FixMixed>>})
    \cup KindsOf({<<GpsEmpty>>}, {<<FixNone>>})

\* The batch: one archive and document, up to MaxPresent pairs with files.
Init ==
    /\ archive = <<IconPng, DocKml>>
    /\ kml = KmlHouses
    /\ \E S \in SUBSET Pairs :
          /\ Cardinality(S) <= MaxPresent
          /\ FilesOn(S, BatchKinds)
    /\ Start

Spec == Init /\ [][Next]_vars

\* Alignment: one pair whose trajectory is any file of up to MaxSamples rows.
SampleKinds == {Sample(0, PosA), Sample(10, PosB), Sample(10, PosC),
                Sample(0, PosB), NoTime(PosA), NoLat(10, PosB)}

FixTimes == <<Fix(<<9>>, 1, 1), Fix(NaT, 1, 2), Fix(<<5>>, 2, 3),
              Fix(<<5>>, 0, 4)>>

InitAlign ==
    /\ archive = <<DocKml>>
    /\ kml = KmlHouses
    /\ \E p \in {<<1, 1>>, <<NumExpl, NumET>>} :
          FilesOn({p}, KindsOf({<<g>> : g \in SeqsUpTo(SampleKinds, MaxSamples)},
                               {<<FixTimes>>}))
    /\ Start

SpecAlign == InitAlign /\ [][Next]_vars

\* Registry loading: any archive of ArchiveKinds, any document of up to
\* MaxPlacemarks placemarks, one pair with files.
InitKml ==
    /\ archive \in ArchiveKinds
    /\ kml \in SeqsUpTo(PlacemarkKinds, MaxPlacemarks)
    /\ FilesOn({<<1, 2>>}, KindsOf({<<GpsScenario>>}, {<<FixMixed>>}))
    /\ Start

SpecKml == InitKml /\ [][Next]_vars

\* Outlier selection: the state at the exit of the pair loop, the pooled
\* results being any table of 1..MaxResults rows (in loop order), or the
\* spec's ten-row scenario.
RECURSIVE ParseAll(_, _)
ParseAll(hc, pms) ==
    IF pms = <<>> THEN hc ELSE ParseAll(ParseOne(hc, Head(pms)).hc, Tail(pms))

PooledRow(e, d, i) ==
    [expl |-> e, et |-> 1, house_nr |-> 1, building_name |-> PunktEins,
     fixation_time |-> i, person_position |-> <<PosB[1] + d, PosB[2]>>,
     target_position |-> PosB, distance_m |-> d, frame_nr |-> i]

DistanceKinds == {0, 1, 3, 8}

ScenarioDistances == <<1, 2, 2, 3, 3, 3, 4, 4, 5, 100>>

ScenarioResults ==
    [i \in 1..Len(ScenarioDistances) |->
        PooledRow(IF i <= 5 THEN 1 ELSE 2, ScenarioDistances[i], i)]

PooledTables ==
    {ScenarioResults} \cup
    UNION {{[i \in 1..n |-> PooledRow(g[i], d[i], i)] :
              g \in {h \in [1..n -> {1, 2}] :
                       \A i, j \in 1..n : i < j => h[i] <= h[j]},
              d \in [1..n -> DistanceKinds]}
           : n \in 1..MaxResults}

InitIqr ==
    /\ archive = <<DocKml>>
    /\ kml = KmlHouses
    /\ FilesOn({}, {})
    /\ pc = "pairs"
    /\ error = None
    /\ kml_file = <<DocKml>>
    /\ pm_i = Len(KmlHouses) + 1
    /\ house_coords = ParseAll(<<>>, KmlHouses)
    /\ expl = NumExpl + 1
    /\ et = 1
    /\ gps_df = <<>>
    /\ fix_df = <<>>
    /\ row_i = 1
    /\ all_results \in PooledTables
    /\ log = <<>>
    /\ Q1 = 0
    /\ Q3 = 0
    /\ IQR = 0
    /\ outlier_df = None
    /\ NoRenderer

NextIqr ==
    \/ ComputeIQR
    \/ SelectOutliers

SpecIqr == InitIqr /\ [][NextIqr]_vars

---------------------------------------------------------------------------
(* Properties *)

\* What the properties read off the inputs: the valid samples of pair p's
\* trajectory file, and the rows of its fixation file that survive.
TrajRows(p) == files[p].gps[1]

SamplePos(p, i) == <<TrajRows(p)[i].latitude[1], TrajRows(p)[i].longitude[1]>>

SampleGap(p, i, t) == Abs(TrajRows(p)[i].synced_time[1] - t)

Nearest(p, t) ==
    {i \in ValidLabels(TrajRows(p)) :
        \A j \in ValidLabels(TrajRows(p)) : SampleGap(p, i, t) <= SampleGap(p, j, t)}

PairOf(r) == <<r.expl, r.et>>

\* C1: every result's person position is the position of a sample of the
\* same pair's trajectory whose time distance to the fixation is minimal
\* among all samples of that trajectory; with samples at t=0 and t=10 and a
\* fixation at t=9 it is the sample at t=10.
C1_NearestSample ==
    \A k \in 1..Len(all_results) :
        LET r == all_results[k]
        IN /\ \E i \in Nearest(PairOf(r), r.fixation_time) :
                 SamplePos(PairOf(r), i) = r.person_position
           /\ (TrajRows(PairOf(r)) = GpsScenario /\ r.fixation_time = 9)
                 => /\ r.person_position = PosB
                    /\ r.target_position = PosB => r.distance_m = 0

\* C1 witness: the scenario's fixation at t=9 has been matched, and to the
\* sample at t=10.
C1_Witness ==
    \E k \in 1..Len(all_results) :
        /\ TrajRows(PairOf(all_results[k])) = GpsScenario
        /\ all_results[k].fixation_time = 9
        /\ all_results[k].person_position = PosB

\* The first position of `order` (a sequence of row labels) among those
\* nearest to t.
FirstNearest(p, order, t) ==
    order[CHOOSE i \in 1..Len(order) :
             /\ order[i] \in Nearest(p, t)
             /\ \A j \in 1..(i - 1) : order[j] \notin Nearest(p, t)]

FixRows(p) == files[p].fix[1]

Survives(row) ==
    /\ row.start_timestamp_ns # NaT
    /\ row.house_nr # 0
    /\ row.house_nr \in DOMAIN house_coords

Surviving(p) == SelectSeq(FixRows(p), Survives)

ResultsOf(p) == SelectSeq(all_results, LAMBDA r : PairOf(r) = p)

Logged(what, p) == \E i \in 1..Len(log) : log[i] = <<what, p[1], p[2]>>

Finished == pc \in {"done", "aborted"}

\* C2 as stated: a pair with surviving fixations and no valid trajectory
\* sample does not end the run (its fixations are dropped and the loop goes
\* on), and gets no result.
C2_EmptyTrajectorySkipped ==
    \A p \in Pairs :
        (/\ BothExist(p)
         /\ ValidLabels(TrajRows(p)) = {}
         /\ Surviving(p) # <<>>)
        => /\ ResultsOf(p) = <<>>
           /\ ~(pc = "aborted" /\ expl = p[1] /\ et = p[2])

\* The results pair p gives when it is the only pair with files.
AloneResults(p) ==
    IF ~BothExist(p) \/ ValidLabels(TrajRows(p)) = {} THEN <<>>
    ELSE [i \in 1..Len(Surviving(p)) |->
            Result(p[1], p[2],
                   [start_timestamp_ns |-> Surviving(p)[i].start_timestamp_ns[1],
                    house_nr |-> Surviving(p)[i].house_nr,
                    frame_nr |-> Surviving(p)[i].frame_nr],
                   house_coords,
                   LoadGps(TrajRows(p), sort_order[p]))]

\* C3 as stated: when the run has ended, a pair with a file missing has no
\* result, and every pair with both files has been processed and has the
\* results it gives alone, whichever pairs are missing.
C3_MissingPairsSkipped ==
    Finished =>
        \A p \in Pairs :
            IF BothExist(p)
            THEN Logged("Processing", p) /\ ResultsOf(p) = AloneResults(p)
            ELSE ResultsOf(p) = <<>>

\* C4: in every state, no accumulated result has building id 0 or a
\* building id that is not a key of the registry.
C4_NoInvalidBuilding ==
    \A k \in 1..Len(all_results) :
        /\ all_results[k].house_nr # 0
        /\ all_results[k].house_nr \in DOMAIN house_coords

\* C4 witness: the registry holds house 0, and a pair whose fixation file
\* has rows for house 0 and for a house outside the registry has been
\* processed to the end with results.
C4_Witness ==
    /\ 0 \in DOMAIN house_coords
    /\ pc = "pairs"
    /\ \E p \in Pairs :
          /\ ResultsOf(p) # <<>>
          /\ \E i \in 1..Len(FixRows(p)) : FixRows(p)[i].house_nr = 0
          /\ \E i \in 1..Len(FixRows(p)) :
                FixRows(p)[i].house_nr \notin DOMAIN house_coords

\* C9: once the pair loop has finished, every processed pair with a
\* non-empty trajectory has exactly one result per surviving fixation, in
\* order, each with that fixation's timestamp and house_nr, the registry's
\* position and name for that house, and a person position that is a
\* sample of the same pair's trajectory.
C9_OneResultPerFixation ==
    (expl > NumExpl) =>
        \A p \in Pairs :
            (BothExist(p) /\ ValidLabels(TrajRows(p)) # {}) =>
                /\ Len(ResultsOf(p)) = Len(Surviving(p))
                /\ \A i \in 1..Len(ResultsOf(p)) :
                      LET r == ResultsOf(p)[i]
                          f == Surviving(p)[i]
                      IN /\ r.fixation_time = f.start_timestamp_ns[1]
                         /\ r.house_nr = f.house_nr
                         /\ r.frame_nr = f.frame_nr
                         /\ r.target_position = <<house_coords[f.house_nr].lat,
                                                  house_coords[f.house_nr].lon>>
                         /\ r.building_name = house_coords[f.house_nr].name
                         /\ \E j \in ValidLabels(TrajRows(p)) :
                               r.person_position = SamplePos(p, j)

\* C9 witness: the loop has finished with two processed pairs of different
\* trajectories, each with its results, some fixation rows having been
\* filtered out.
C9_Witness ==
    /\ pc = "done"
    /\ \E p, q \in Pairs :
          /\ BothExist(p) /\ BothExist(q)
          /\ TrajRows(p) = GpsScenario /\ TrajRows(q) = GpsTie
          /\ Len(ResultsOf(p)) = 2 /\ Len(ResultsOf(q)) = 2
          /\ Len(FixRows(p)) > 2

\* No entry of the archive has a name ending in ".kml".
NoKmlEntry ==
    \A i \in 1..Len(archive) :
        \/ Len(archive[i]) < 4
        \/ SubSeq(archive[i], Len(archive[i]) - 3, Len(archive[i]))
              # <<".", "k", "m", "l">>

\* C8 as stated: without a .kml entry the run fails at loading: once the
\* archive has been read the run is over, no pair is processed, and there
\* is no result and no outlier set.
C8_NoKmlFatalAtLoad ==
    NoKmlEntry =>
        /\ pc # "extract" => pc = "aborted"
        /\ \A p \in Pairs : ~Logged("Processing", p)
        /\ all_results = <<>>
        /\ outlier_df = None

\* C8 amended: without a .kml entry nothing fails at loading: the registry
\* stays empty and the pair loop runs, every pair with both files is
\* processed and all its fixations are filtered out, so there is never a
\* result; the run ends after the loop with the KeyError of the empty result
\* table, before any outlier set exists.
C8_NoKmlEmptyRegistry ==
    NoKmlEntry =>
        /\ kml_file = None
        /\ house_coords = <<>>
        /\ all_results = <<>>
        /\ outlier_df = None
        /\ pc \in {"extract", "pairs", "rows", "aborted"}
        /\ pc = "rows" => fix_df = <<>>
        /\ pc = "aborted" =>
              /\ error = <<"KeyError">>
              /\ expl > NumExpl
              /\ \A p \in Pairs : BothExist(p) => Logged("Processing", p)

\* C8 witness: an archive with entries but no .kml entry, the run ended
\* after the pair with files was processed.
C8_Witness ==
    /\ NoKmlEntry
    /\ archive # <<>>
    /\ pc = "aborted"
    /\ \E p \in Pairs : Logged("Processing", p)

\* What C10 says of one placemark: it gets an entry exactly if its name
\* matches and it has a Point with coordinates lon,lat[,alt].
HasName(pm) == pm.name.tag = "text" /\ ReMatch(Strip(pm.name.text)) # <<>>

HasPoint(pm) == pm.coords.tag # "none"

HasCoords(pm) ==
    /\ pm.coords.tag = "text"
    /\ Len(pm.coords.text) \in {2, 3}
    /\ \A i \in 1..Len(pm.coords.text) : pm.coords.text[i] # <<>>

Registered(pm) == HasName(pm) /\ HasCoords(pm)

IdOf(pm) == ToInt(ReMatch(Strip(pm.name.text))[1])

\* C10 as stated: while and after the document is parsed, the registry
\* holds exactly the ids of the placemarks read so far that have a matching
\* name and a Point with coordinates, each mapped to (latitude, longitude,
\* name) of the last such placemark with that id, longitude and latitude
\* swapped from the source order; and a placemark whose name does not match,
\* is missing or is empty, or that has no Point, raises no error.
C10_RegistryIffValidPlacemark ==
    LET read == 1..(pm_i - 1)
    IN /\ (pc = "aborted" /\ log = <<>>) =>
              (HasName(kml[pm_i - 1]) /\ HasPoint(kml[pm_i - 1]))
       /\ DOMAIN house_coords =
              {IdOf(kml[i]) : i \in {j \in read : Registered(kml[j])}}
       /\ \A i \in read :
              (/\ Registered(kml[i])
               /\ \A j \in read : (j > i /\ Registered(kml[j]))
                                     => IdOf(kml[j]) # IdOf(kml[i]))
              => house_coords[IdOf(kml[i])] =
                    [lat |-> kml[i].coords.text[2][1],
                     lon |-> kml[i].coords.text[1][1],
                     name |-> Strip(kml[i].name.text)]

\* The j-th smallest pooled distance (j from 1), by counting, and the
\* quartile k/4 of the pooled distances as a numerator over 4: linear
\* interpolation at position (n - 1) * k / 4.
Pooled == Distances(all_results)

Smallest(j) ==
    CHOOSE v \in {Pooled[i] : i \in 1..Len(Pooled)} :
        /\ Cardinality({i \in 1..Len(Pooled) : Pooled[i] < v}) < j
        /\ Cardinality({i \in 1..Len(Pooled) : Pooled[i] <= v}) >= j

PooledQuartile(k) ==
    LET h == (Len(Pooled) - 1) * k
        below == Smallest((h \div 4) + 1)
        above == IF h % 4 = 0 THEN below ELSE Smallest((h \div 4) + 2)
    IN (4 - (h % 4)) * below + (h % 4) * above

Low(r) == 8 * r.distance_m < 2 * PooledQuartile(1)
                               - 3 * (PooledQuartile(3) - PooledQuartile(1))

High(r) == 8 * r.distance_m > 2 * PooledQuartile(3)
                                + 3 * (PooledQuartile(3) - PooledQuartile(1))

\* C5: Q1, Q3 and IQR = Q3 - Q1 are those of the pooled distances of all
\* pairs; the outlier subset is exactly the results with distance below
\* Q1 - 1.5 IQR or above Q3 + 1.5 IQR, as they are (every field unchanged,
\* in order), so their number is the number below plus the number above.
C5_PooledIqrOutliers ==
    /\ pc \in {"select", "done"} =>
          /\ Q1 = PooledQuartile(1)
          /\ Q3 = PooledQuartile(3)
          /\ IQR = Q3 - Q1
    /\ pc = "done" =>
          /\ outlier_df = <<SelectSeq(all_results, LAMBDA r : Low(r) \/ High(r))>>
          /\ Len(outlier_df[1]) = Len(SelectSeq(all_results, Low))
                                  + Len(SelectSeq(all_results, High))

\* C5 witness: results of two explorations, of which the selection kept
\* some and dropped some, one of the kept ones being below the lower bound.
C5_Witness ==
    /\ pc = "done"
    /\ \E i, j \in 1..Len(all_results) : all_results[i].expl # all_results[j].expl
    /\ Len(outlier_df[1]) \in 1..(Len(all_results) - 1)
    /\ \E i \in 1..Len(outlier_df[1]) : Low(outlier_df[1][i])

InScenario == Pooled = ScenarioDistances

OutlierDistances == Distances(outlier_df[1])

\* C6 as stated: on [1,2,2,3,3,3,4,4,5,100], Q1 = 2, Q3 = 4, IQR = 2, the
\* bounds are (-1, 7) and 100 is the only outlier.
C6_ScenarioQuartilesAsStated ==
    InScenario =>
        /\ pc \in {"select", "done"} =>
              /\ Q1 = 4 * 2
              /\ Q3 = 4 * 4
              /\ IQR = 4 * 2
              /\ 2 * Q1 - 3 * IQR = 8 * (-1)
              /\ 2 * Q3 + 3 * IQR = 8 * 7
        /\ pc = "done" => OutlierDistances = <<100>>

\* C6 amended: on [1,2,2,3,3,3,4,4,5,100], Q1 = 2.25 = 9/4, Q3 = 4 and
\* IQR = 1.75 = 7/4, the bounds are (-0.375, 6.625) = (-3/8, 53/8), and 100
\* is the only outlier.
C6_ScenarioQuartiles ==
    InScenario =>
        /\ pc \in {"select", "done"} =>
              /\ Q1 = 9
              /\ Q3 = 16
              /\ IQR = 7
              /\ 2 * Q1 - 3 * IQR = -3
              /\ 2 * Q3 + 3 * IQR = 53
        /\ pc = "done" => OutlierDistances = <<100>>

\* C6 witness: the selection has run on the scenario.
C6_Witness == InScenario /\ pc = "done" /\ Len(outlier_df[1]) = 1

---------------------------------------------------------------------------
(* The track renderer, src/code/animated.py: one colour and one legend     *)
(* entry per CSV file, one animated layer per file with valid rows, the    *)
(* map centred on the first valid file.                                    *)

MaxFiles == 11
MaxTracks == 2

color_palette == <<"blue", "red", "green", "orange", "purple", "pink",
                   "brown", "black", "cyan", "magenta">>

\* folium.Map(location=[52.52, 13.405])
MapStart == <<525200, 134050>>

DotCsv == <<".", "c", "s", "v">>

\* [f for f in os.listdir(folder_path) if f.endswith('.csv')]
CsvNames(entries) ==
    LET kept == SelectSeq(entries, LAMBDA e : EndsWith(e.name, DotCsv))
    IN [i \in 1..Len(kept) |-> kept[i].name]

\* pd.read_csv(os.path.join(folder_path, csv_file))
ReadCsv(name) ==
    CHOOSE i \in 1..Len(listing) : listing[i].name = name

CycleNoWrap(pos) == IF pos < Len(color_palette) THEN pos + 1 ELSE pos

\* next(color_cycle): the iterator moves on, and wraps after the last colour.
CycleNext(pos) == (pos % Len(color_palette)) + 1

\* The GeoJSON features of one file: a point per row, in sorted order, each
\* styled with the file's colour.
Features(rows, order, csv_file, color) ==
    [i \in 1..Len(order) |->
        [coordinates |-> <<rows[order[i]].longitude[1],
                           rows[order[i]].latitude[1]>>,
         time |-> rows[order[i]].synced_time[1],
         popup |-> <<csv_file, rows[order[i]].synced_time[1]>>,
         color |-> color,
         fillColor |-> color]]

ListCsv ==
    /\ render_pc = "list"
    /\ csv_files' = CsvNames(listing)
    /\ render_pc' = "files"
    /\ UNCHANGED <<listing, file_i, color_cycle, first_point, legend_items,
                   m_location, m_layers, legend_html>>
    /\ UNCHANGED batch

\* for csv_file in csv_files: one iteration.
ProcessFile ==
    /\ render_pc = "files"
    /\ file_i <= Len(csv_files)
    /\ LET csv_file == csv_files[file_i]
           color == color_palette[color_cycle]
           rows == listing[ReadCsv(csv_file)].rows
       IN /\ color_cycle' = CycleNext(color_cycle)
          /\ legend_items' = Append(legend_items, <<csv_file, color>>)
          /\ \E order \in SortOutcomes(rows) :
                IF order = <<>>
                THEN UNCHANGED <<first_point, m_location, m_layers>>
                ELSE /\ IF first_point = None
                        THEN /\ first_point' =
                                  <<<<rows[order[1]].latitude[1],
                                      rows[order[1]].longitude[1]>>>>
                             /\ m_location' = first_point'[1]
                        ELSE UNCHANGED <<first_point, m_location>>
                     /\ m_layers' = Append(m_layers,
                           [features |->
                              Features(rows, order, csv_file, color)])
    /\ file_i' = file_i + 1
    /\ UNCHANGED <<listing, csv_files, legend_html, render_pc>>
    /\ UNCHANGED batch

\* legend_html: one entry per legend item, added to the map.
BuildLegend ==
    /\ render_pc = "files"
    /\ file_i > Len(csv_files)
    /\ legend_html' = <<[i \in 1..Len(legend_items) |->
                           [background |-> legend_items[i][2],
                            name |-> legend_items[i][1]]]>>
    /\ render_pc' = "done"
    /\ UNCHANGED <<listing, csv_files, file_i, color_cycle, first_point,
                   legend_items, m_location, m_layers>>
    /\ UNCHANGED batch

NextTracks ==
    \/ ListCsv
    \/ ProcessFile
    \/ BuildLegend

Letters == <<"a", "b", "c", "d", "e", "f", "g", "h", "i", "j", "k", "l",
             "m", "n", "o", "p">>

CsvEntry(i, rows) == [name |-> <<Letters[i]>> \o DotCsv, rows |-> rows]

NotesTxt == [name |-> <<"n", "o", "t", "e", "s", ".", "t", "x", "t">>,
             rows |-> GpsScenario]

UpperCsv == [name |-> <<"L", "O", "G", ".", "C", "S", "V">>, rows |-> GpsTie]

\* A trajectory file whose two earliest samples have the same time.
GpsTwin == <<Sample(7, PosB), Sample(2, PosA), NoTime(PosB), Sample(2, PosC)>>

\* Directory listings: up to MaxFiles CSV files, at most MaxTracks of them
\* with a valid row, after an optional entry that is no CSV file.
Listings ==
    UNION {{front \o [i \in 1..n |-> CsvEntry(i, r[i])] :
              front \in {<<>>, <<NotesTxt>>, <<UpperCsv>>},
              r \in {q \in [1..n -> {GpsEmpty, GpsScenario, GpsTwin}] :
                       Cardinality({i \in 1..n : q[i] # GpsEmpty}) <= MaxTracks}}
           : n \in 0..MaxFiles}

\* The renderer is a script of its own: nothing of the batch runs.
NoBatch ==
    /\ archive = <<>>
    /\ kml = <<>>
    /\ FilesOn({}, {})
    /\ pc = "none"
    /\ error = None
    /\ kml_file = None
    /\ pm_i = 1
    /\ house_coords = <<>>
    /\ expl = 1
    /\ et = 1
    /\ gps_df = <<>>
    /\ fix_df = <<>>
    /\ row_i = 1
    /\ all_results = <<>>
    /\ log = <<>>
    /\ Q1 = 0
    /\ Q3 = 0
    /\ IQR = 0
    /\ outlier_df = None

InitTracks ==
    /\ NoBatch
    /\ listing \in Listings
    /\ csv_files = <<>>
    /\ file_i = 1
    /\ color_cycle = 1
    /\ first_point = None
    /\ legend_items = <<>>
    /\ m_location = MapStart
    /\ m_layers = <<>>
    /\ legend_html = None
    /\ render_pc = "list"

SpecTracks == InitTracks /\ [][NextTracks]_vars

---------------------------------------------------------------------------
(* Properties of the track renderer.                                       *)

\* The CSV files of the folder, in directory-listing order.
CsvListing == SelectSeq(listing, LAMBDA e : EndsWith(e.name, DotCsv))

\* How many of them the loop has been through.
Handled == IF render_pc = "list" THEN 0 ELSE file_i - 1

\* A file has a valid row: latitude, longitude and a parsable time.
HasValidRow(file) == ValidLabels(file.rows) # {}

\* The colour of the i-th CSV file, i counted from 0.
PaletteColour(i) == color_palette[(i % 10) + 1]

\* Positions of the earliest-timestamp valid samples of a file.
EarliestPositions(file) ==
    LET rows == file.rows
        L == ValidLabels(rows)
    IN {<<rows[r].latitude[1], rows[r].longitude[1]>> :
          r \in {q \in L : \A o \in L :
                    rows[q].synced_time[1] <= rows[o].synced_time[1]}}

\* The handled files that have a valid row.
TrackFiles == {j \in 1..Handled : HasValidRow(CsvListing[j])}

C11_State ==
    LET F == CsvListing
        T == {j \in 1..Handled : HasValidRow(F[j])}
        \* the layer of the j-th file: the files with a valid row up to it
        LayerOf(j) == m_layers[Cardinality({k \in T : k <= j})]
    IN /\ Len(legend_items) = Handled
       /\ \A j \in 1..Handled :
             legend_items[j] = <<F[j].name, PaletteColour(j - 1)>>
       /\ Len(m_layers) = Cardinality(T)
       /\ \A j \in T :
             /\ LayerOf(j).features # <<>>
             /\ \A f \in 1..Len(LayerOf(j).features) :
                   /\ LayerOf(j).features[f].popup[1] = F[j].name
                   /\ LayerOf(j).features[f].color = PaletteColour(j - 1)
                   /\ LayerOf(j).features[f].fillColor = PaletteColour(j - 1)
       /\ IF T = {}
          THEN first_point = None /\ m_location = MapStart
          ELSE /\ first_point = <<m_location>>
               /\ m_location \in
                    EarliestPositions(F[CHOOSE j \in T : \A k \in T : j <= k])
       /\ render_pc = "done" =>
             /\ Handled = Len(F)
             /\ legend_html # None
             /\ Len(legend_html[1]) = Len(F)
             /\ \A j \in 1..Len(F) :
                   legend_html[1][j] = [background |-> PaletteColour(j - 1),
                                        name |-> F[j].name]

\* The map centre changes only in the step that takes first_point from None.
C11_CentreSetOnce ==
    m_location' # m_location => first_point = None /\ first_point' # None

\* C11: the i-th CSV file in listing order (0-based) gets colour
\* palette[i mod 10] and exactly one legend entry with that colour, whether
\* or not it has a valid row; a file with no valid row adds no layer yet
\* takes a colour and a legend entry; and the map centre is set exactly
\* once, to the earliest-timestamp sample of the first file in listing
\* order that has a valid row.
C11_ColourLegendCentre == []C11_State /\ [][C11_CentreSetOnce]_vars

\* A finished run over eleven CSV files behind an entry that is no CSV file:
\* the palette has wrapped, a file without valid rows precedes the first
\* track, and a second track starts somewhere else than the map centre.
C11_Witness ==
    /\ render_pc = "done"
    /\ Len(listing) > Len(CsvListing)
    /\ Len(CsvListing) = 11
    /\ legend_items[11][2] = "blue"
    /\ ~HasValidRow(CsvListing[1])
    /\ Cardinality(TrackFiles) = 2
    /\ HasValidRow(CsvListing[11])
    /\ m_location \notin EarliestPositions(CsvListing[11])
    /\ m_layers[2].features[1].color = "blue"
    /\ m_layers[1].features[1].color # "blue"

=============================================================================
